---- MODULE Spec2Model ----
(***************************************************************************)
(* Multi-timeframe forecasting engine of the stock dashboard backend:      *)
(* MultiTimeframePredictor (backend/advanced_ml_models.py) and the         *)
(* /live/stocks/{symbol}/predict endpoint that drives it (backend/main.py).*)
(*                                                                         *)
(* Numbers: row positions are 1-based (pandas position p is row p+1).      *)
(* Dates are day numbers (days since 1970-01-01); Strftime turns one into  *)
(* the <<year, month, day>> that '%Y-%m-%d' prints, and two printed dates  *)
(* compare as the zero-padded strings do (DateStrLess).                    *)
(* Real-valued results are kept exact: a confidence is a numerator over    *)
(* the horizon's total days, R2 is in hundredths.                          *)
(***************************************************************************)
EXTENDS Integers, Sequences, FiniteSets, TLC

VARIABLES models, scalers, feature_importance, nextRun, last, reqs

vars == <<models, scalers, feature_importance, nextRun, last, reqs>>
cache == <<models, scalers, feature_importance>>

(***************************************************************************)
(* Bounds of the model.                                                    *)
(***************************************************************************)
MaxRuns == 2
MaxReqs == 2

(***************************************************************************)
(* Inputs.                                                                 *)
(***************************************************************************)
Symbols == {"TCS", "INFY"}
ValidTimeframes == {"1M", "6M", "1Y", "5Y"}
\* "2W" stands for any timeframe string outside the four supported ones.
TimeframeArgs == ValidTimeframes \cup {"2W"}
\* The timeframes requested over HTTP: a short one, a long one, an unsupported one.
ApiTimeframes == {"1M", "1Y", "2W"}
\* R2 of a fit, in hundredths (0.40 and 0.60: either side of the 0.5 threshold).
R2Values == {50, 60}

Max2(a, b) == IF a >= b THEN a ELSE b
Min2(a, b) == IF a <= b THEN a ELSE b
SetMax(S) == CHOOSE x \in S : \A y \in S : y <= x
SetMin(S) == CHOOSE x \in S : \A y \in S : x <= y

(***************************************************************************)
(* Datasets: a DataFrame indexed by ascending dates with the columns Open, *)
(* High, Low, Close, Volume (columns = TRUE), or a frame without them.     *)
(* n is the row count, first the date of row 1, weekdays tells whether the *)
(* index skips two days after every five rows, dir is the daily change of  *)
(* Close, and Close is constant on the rows a..b (a = b: no plateau).      *)
(***************************************************************************)
DS(id, columns, n, weekdays, dir, a, b) ==
    [id |-> id, columns |-> columns, n |-> n, first |-> 19723,   \* 2024-01-01
     weekdays |-> weekdays, dir |-> dir, a |-> a, b |-> b]

DataSets ==
    { DS("nocols", FALSE, 0, FALSE, 1, 1, 1),
      DS("empty", TRUE, 0, FALSE, 1, 1, 1),
      DS("rows1", TRUE, 1, FALSE, 1, 1, 1),
      DS("rows2", TRUE, 2, FALSE, 1, 1, 1),
      DS("rows3", TRUE, 3, FALSE, 1, 1, 1),
      DS("rows10", TRUE, 10, FALSE, 1, 1, 1),
      DS("rows55", TRUE, 55, FALSE, 1, 1, 1),
      DS("rows60", TRUE, 60, TRUE, 1, 1, 1),
      DS("late60", TRUE, 60, TRUE, 1, 55, 58),
      DS("rows120", TRUE, 120, FALSE, 1, 1, 1),
      DS("rows300", TRUE, 300, TRUE, -1, 150, 180),
      DS("rows470", TRUE, 470, FALSE, 1, 1, 1),
      DS("flat300", TRUE, 300, FALSE, 1, 1, 300) }

\* The frames held for each symbol (a symbol's history, at different lengths).
DataOf(symbol) ==
    IF symbol = "TCS"
    THEN {d \in DataSets : d.id \in {"nocols", "empty", "rows10", "rows60", "late60",
                                    "rows120", "rows470"}}
    ELSE {d \in DataSets : d.id \in {"rows300", "flat300"}}

\* df.index[i-1]
DateOf(d, i) ==
    IF d.weekdays THEN d.first + (i - 1) + 2 * ((i - 1) \div 5)
    ELSE d.first + (i - 1)

\* Number of rows j in 2..i whose Close differs from the row before.
Moves(d, i) ==
    (i - 1) - Max2(0, Min2(i, d.b) - Max2(2, d.a + 1) + 1)

\* df['Close'].iloc[i-1]
Close(d, i) == 1000 + d.dir * Moves(d, i)

\* d.strftime('%Y-%m-%d') of a date: <<year, month, day>>.
Strftime(day) ==
    LET z == day + 719468
        era == z \div 146097
        doe == z - era * 146097
        yoe == (doe - doe \div 1460 + doe \div 36524 - doe \div 146096) \div 365
        doy == doe - (365 * yoe + yoe \div 4 - yoe \div 100)
        mp == (5 * doy + 2) \div 153
        dd == doy - (153 * mp + 2) \div 5 + 1
        mm == IF mp < 10 THEN mp + 3 ELSE mp - 9
        yy == yoe + era * 400 + (IF mm <= 2 THEN 1 ELSE 0)
    IN <<yy, mm, dd>>

\* Order of two printed dates, as the order of the strings.
DateStrLess(s, t) ==
    \/ s[1] < t[1]
    \/ s[1] = t[1] /\ s[2] < t[2]
    \/ s[1] = t[1] /\ s[2] = t[2] /\ s[3] < t[3]

(***************************************************************************)
(* MultiTimeframePredictor.TIMEFRAME_DAYS and the per-timeframe tables.    *)
(***************************************************************************)
IsTimeframe(tf) == tf \in {"1M", "6M", "1Y", "5Y"}

\* self.TIMEFRAME_DAYS[timeframe]; only defined for the four keys.
TimeframeDays(tf) ==
    CASE tf = "1M" -> 30 [] tf = "6M" -> 180 [] tf = "1Y" -> 365 [] tf = "5Y" -> 1825

\* self.TIMEFRAME_DAYS.get(timeframe, 30) // 30
TargetShift(tf) == (IF IsTimeframe(tf) THEN TimeframeDays(tf) ELSE 30) \div 30

\* features_df['target'] = df['Close'].shift(-target_shift): the row of df
\* whose Close is the target of row i.
TargetRow(i, tf) == i + TargetShift(tf)

\* ma_periods, momentum_period, vol_window of prepare_features
MaPeriods(tf) ==
    CASE tf = "5Y" -> <<20, 50, 100, 200>>
      [] tf = "1Y" -> <<10, 20, 50, 100>>
      [] tf = "6M" -> <<5, 10, 20, 50>>
      [] OTHER -> <<3, 5, 10, 20>>

MomentumPeriod(tf) ==
    CASE tf = "5Y" -> 20 [] tf = "1Y" -> 15 [] tf = "6M" -> 10 [] OTHER -> 5

VolWindow(tf) ==
    CASE tf = "5Y" -> 60 [] tf = "1Y" -> 30 [] tf = "6M" -> 20 [] OTHER -> 10

\* min_samples.get(timeframe, 50)
MinSamples(tf) ==
    CASE tf = "1M" -> 30 [] tf = "6M" -> 60 [] tf = "1Y" -> 100 [] tf = "5Y" -> 200
      [] OTHER -> 50

\* lag_days = min(10, max(3, len(df) // 100))
LagDays(n) == Min2(10, Max2(3, n \div 100))

(***************************************************************************)
(* prepare_features: the feature columns, in the order they are added.     *)
(* A column is <<name, parameter>>; Warmup is the number of leading rows   *)
(* on which the column is NaN by construction (rolling windows, diffs,     *)
(* shifts).                                                                *)
(***************************************************************************)
SelectSeq2(s, Test(_)) == SelectSeq(s, Test)

MaCols(n, tf) ==
    LET present(p) == n >= p
        ps == SelectSeq2(MaPeriods(tf), present)
    IN [i \in 1..Len(ps) |-> <<"ma", ps[i]>>]

LagCols(n) ==
    [i \in 1..(2 * LagDays(n)) |->
        IF i % 2 = 1 THEN <<"close_lag", (i + 1) \div 2>>
        ELSE <<"return_lag", i \div 2>>]

FeatureColumns(n, tf) ==
    MaCols(n, tf)
    \o << <<"rsi", 14>>, <<"momentum", MomentumPeriod(tf)>>,
          <<"roc", MomentumPeriod(tf)>>, <<"volatility", VolWindow(tf)>>,
          <<"volume_ma", 20>>, <<"volume_ratio", 20>>, <<"macd", 0>>,
          <<"macd_signal", 0>>, <<"bb_middle", 20>>, <<"bb_upper", 20>>,
          <<"bb_lower", 20>>, <<"bb_position", 20>>, <<"high_low_ratio", 0>>,
          <<"close_open_ratio", 0>> >>
    \o LagCols(n)

Warmup(col) ==
    CASE col[1] \in {"ma", "volume_ma", "volume_ratio", "bb_middle", "bb_upper",
                     "bb_lower", "bb_position"} -> col[2] - 1
      [] col[1] = "rsi" -> col[2] - 1
      [] col[1] \in {"momentum", "roc", "volatility", "close_lag"} -> col[2]
      [] col[1] = "return_lag" -> col[2] + 1
      [] OTHER -> 0

\* rsi is 0/0 = NaN where neither a gain nor a loss lies in the 14-row window
\* (the NaN of the first diff counts as 0 in both).
RsiNaN(d, i) ==
    /\ i >= 14
    /\ \A j \in (i - 13)..i : j = 1 \/ Close(d, j) = Close(d, j - 1)

\* bb_position is 0/0 = NaN where the 20-row window of Close is constant.
BbNaN(d, i) ==
    /\ i >= 20
    /\ \A j \in (i - 18)..i : Close(d, j) = Close(d, j - 1)

\* features_df.dropna(): the rows of df that keep every column and the target,
\* in the order of df.
CompleteRows(d, tf) ==
    LET cols == FeatureColumns(d.n, tf)
        warm == SetMax({0} \cup {Warmup(cols[c]) : c \in 1..Len(cols)})
        complete(i) == /\ i > warm
                       /\ i <= d.n - TargetShift(tf)
                       /\ ~RsiNaN(d, i)
                       /\ ~BbNaN(d, i)
    IN SelectSeq([i \in 1..d.n |-> i], complete)

\* prepare_features(df, timeframe): X as the row numbers it keeps, in order,
\* and its columns; y is aligned with X row by row.
PrepareFeatures(d, tf) ==
    [rows |-> CompleteRows(d, tf), columns |-> FeatureColumns(d.n, tf)]

\* The feature tables of the datasets, computed once.
FeatureTable ==
    [d \in {e \in DataSets : e.columns}, tf \in TimeframeArgs |-> PrepareFeatures(d, tf)]

(***************************************************************************)
(* The model cache: three dicts keyed by f"{symbol}_{timeframe}".          *)
(***************************************************************************)
EmptyDict == [k \in {} |-> 0]
Put(dict, k, v) == [x \in (DOMAIN dict) \cup {k} |-> IF x = k THEN v ELSE dict[x]]

\* model_key = f"{symbol}_{timeframe}"
ModelKey(symbol, tf) == symbol \o "_" \o tf

\* The estimator chosen for a timeframe.
ModelFamily(tf) ==
    IF tf \in {"5Y", "1Y"} THEN "GradientBoostingRegressor" ELSE "RandomForestRegressor"

\* model.feature_importances_[j-1] of the model fitted by training run `run`:
\* the values depend on the data; a fixed table with ties stands for them.
Importance(run, j) == (7 * j + 5 * run) % 11

\* The sort without reverse=True: smaller importance first.
SortByImportance_Ascending(pairs) ==
    LET n == Len(pairs)
        pos(j) == 1 + Cardinality({k \in 1..n : pairs[k][2] < pairs[j][2]})
                    + Cardinality({k \in 1..(j - 1) : pairs[k][2] = pairs[j][2]})
    IN [p \in 1..n |-> pairs[CHOOSE j \in 1..n : pos(j) = p]]

\* feature_importance.sort(key=lambda x: x[1], reverse=True): a stable sort,
\* larger importance first.
SortByImportance(pairs) ==
    LET n == Len(pairs)
        pos(j) == 1 + Cardinality({k \in 1..n : pairs[k][2] > pairs[j][2]})
                    + Cardinality({k \in 1..(j - 1) : pairs[k][2] = pairs[j][2]})
    IN [p \in 1..n |-> pairs[CHOOSE j \in 1..n : pos(j) = p]]

\* list(zip(X.columns, model.feature_importances_)), sorted
FeatureImportance(columns, run) ==
    SortByImportance([j \in 1..Len(columns) |-> <<columns[j], Importance(run, j)>>])

\* The rankings of the training runs on the datasets, computed once.
FeatureImportanceTable ==
    [d \in {e \in DataSets : e.columns}, tf \in TimeframeArgs, run \in 1..(MaxRuns + 1) |->
        FeatureImportance(FeatureTable[d, tf].columns, run)]

\* split_idx = int(len(X) * 0.8)
SplitIdx(n) == (4 * n) \div 5

\* A training slice taken from the end of the table: X[-split_idx:].
TrainSlice_Tail(rows) ==
    SubSeq(rows, Len(rows) - SplitIdx(Len(rows)) + 1, Len(rows))

\* X[:split_idx] and X[split_idx:]
TrainSlice(rows) == SubSeq(rows, 1, SplitIdx(Len(rows)))
TestSlice(rows) == SubSeq(rows, SplitIdx(Len(rows)) + 1, Len(rows))

\* test_dates = df.index[split_idx:split_idx + len(y_test)], printed
PredictionDates(d, rows) ==
    LET lo == SplitIdx(Len(rows)) + 1
        hi == Min2(d.n, SplitIdx(Len(rows)) + Len(TestSlice(rows)))
    IN [i \in 1..Max2(0, hi - lo + 1) |-> Strftime(DateOf(d, lo + i - 1))]

\* Sums of the close_lag_1 column, df['Close'].shift(1), over the feature
\* rows rows[lo..hi]: the values and the squares of their distance from 1000.
RECURSIVE SumLag1(_, _, _, _)
SumLag1(d, rows, lo, hi) ==
    IF lo > hi THEN 0
    ELSE IF lo = hi THEN Close(d, rows[lo] - 1)
    ELSE SumLag1(d, rows, lo, (lo + hi) \div 2)
            + SumLag1(d, rows, (lo + hi) \div 2 + 1, hi)

RECURSIVE SumSqLag1(_, _, _, _)
SumSqLag1(d, rows, lo, hi) ==
    IF lo > hi THEN 0
    ELSE IF lo = hi
    THEN (Close(d, rows[lo] - 1) - 1000) * (Close(d, rows[lo] - 1) - 1000)
    ELSE SumSqLag1(d, rows, lo, (lo + hi) \div 2)
            + SumSqLag1(d, rows, (lo + hi) \div 2 + 1, hi)

\* StandardScaler().fit(rows): the statistics it keeps, for the close_lag_1
\* column. mean_ is sum / n_samples_seen_; var_ is given by n_samples_seen_,
\* sum and sumsq.
StandardFit(d, rows) ==
    [n_samples_seen_ |-> Len(rows),
     sum |-> SumLag1(d, rows, 1, Len(rows)),
     sumsq |-> SumSqLag1(d, rows, 1, Len(rows))]

\* A scaler fitted on the whole feature table: scaler.fit(X) before the split.
ScalerRows_WholeTable(rows) == rows

\* scaler.fit_transform(X_train): the rows the scaler is fitted on.
ScalerRows(rows) == TrainSlice(rows)

\* The fits of the datasets, computed once.
ScalerTable ==
    [d \in {e \in DataSets : e.columns}, tf \in TimeframeArgs |->
        StandardFit(d, ScalerRows(PrepareFeatures(d, tf).rows))]

\* The message of the insufficient-data result, as its parts.
InsufficientMessage(tf, got) ==
    <<"Insufficient data for ", tf, " training. Need at least ", MinSamples(tf),
      " samples, got ", got>>

ZeroMetrics == [rmse |-> 0, mae |-> 0, r2 |-> 0, mape |-> 0]

(***************************************************************************)
(* train_model(df, symbol, timeframe), as a function of the cache c, the   *)
(* number of the next training run and the R2 the fit reaches on the test  *)
(* slice. Returns the cache after the call, the next run number and the    *)
(* outcome: kind "raise" (an exception leaves the call), "error" (the      *)
(* insufficient-data dict) or "ok".                                        *)
(***************************************************************************)
\* train_model rebinding the dicts to the new entry alone.
TrainFit_Rebinds(c, run, d, X, key, tf, r2) ==
    [cache |->
        [models |-> Put(EmptyDict, key,
                        [run |-> run, family |-> ModelFamily(tf),
                         n_features |-> Len(X.columns)]),
         scalers |-> Put(EmptyDict, key,
                        [run |-> run, n_features |-> Len(X.columns),
                         feature_names_in_ |-> X.columns,
                         fit |-> ScalerTable[d, tf]]),
         feature_importance |->
             Put(EmptyDict, key, FeatureImportanceTable[d, tf, run])],
     run |-> run + 1,
     result |-> [kind |-> "ok",
                 run |-> run,
                 X_train |-> TrainSlice(X.rows),
                 X_test |-> TestSlice(X.rows),
                 n_predictions |-> Len(X.rows) - SplitIdx(Len(X.rows)),
                 prediction_dates |-> PredictionDates(d, X.rows),
                 metrics |-> [r2 |-> r2],
                 feature_columns |-> X.columns]]

\* The stores of lines 191-200 and the dict train_model returns after a fit.
TrainFit(c, run, d, X, key, tf, r2) ==
    [cache |->
        [models |-> Put(c.models, key,
                        [run |-> run, family |-> ModelFamily(tf),
                         n_features |-> Len(X.columns)]),
         scalers |-> Put(c.scalers, key,
                        [run |-> run, n_features |-> Len(X.columns),
                         feature_names_in_ |-> X.columns,
                         fit |-> ScalerTable[d, tf]]),
         feature_importance |->
             Put(c.feature_importance, key, FeatureImportanceTable[d, tf, run])],
     run |-> run + 1,
     result |-> [kind |-> "ok",
                 run |-> run,
                 X_train |-> TrainSlice(X.rows),
                 X_test |-> TestSlice(X.rows),
                 n_predictions |-> Len(X.rows) - SplitIdx(Len(X.rows)),
                 prediction_dates |-> PredictionDates(d, X.rows),
                 metrics |-> [r2 |-> r2],
                 feature_columns |-> X.columns]]

\* train_model storing the fit before it looks at the row count.
TrainOn_StoresFirst(c, run, d, X, key, tf, r2) ==
    IF Len(X.rows) < MinSamples(tf)
    THEN [cache |-> TrainFit(c, run, d, X, key, tf, r2).cache, run |-> run,
          result |-> [kind |-> "error",
                      error |-> InsufficientMessage(tf, Len(X.rows)),
                      metrics |-> ZeroMetrics]]
    ELSE TrainFit(c, run, d, X, key, tf, r2)

\* train_model from the feature table X on.
TrainOn(c, run, d, X, key, tf, r2) ==
    IF Len(X.rows) < MinSamples(tf)
    THEN [cache |-> c, run |-> run,
          result |-> [kind |-> "error",
                      error |-> InsufficientMessage(tf, Len(X.rows)),
                      metrics |-> ZeroMetrics]]
    ELSE TrainFit(c, run, d, X, key, tf, r2)

TrainModel(c, run, d, symbol, tf, r2) ==
    IF ~d.columns      \* df['Close'] in prepare_features
    THEN [cache |-> c, run |-> run,
          result |-> [kind |-> "raise", exc |-> "KeyError", args |-> <<"Close">>]]
    ELSE TrainOn(c, run, d, FeatureTable[d, tf], ModelKey(symbol, tf), tf, r2)

(***************************************************************************)
(* predict_future(df, symbol, timeframe).                                  *)
(***************************************************************************)
\* get_prediction_points(timeframe)
PredictionPoints(tf) ==
    CASE tf = "1M" -> 30 [] tf = "6M" -> 26 [] tf = "1Y" -> 52 [] tf = "5Y" -> 60
      [] OTHER -> 30

\* The confidence with the sign of the decay flipped.
ConfidenceNum_Grows(days_ahead, total_days) ==
    Max2(0, 100 * total_days + 50 * days_ahead)

\* max(0, 100 - (days_ahead / total_days * 50)), as a numerator over total_days
ConfidenceNum(days_ahead, total_days) ==
    Max2(0, 100 * total_days - 50 * days_ahead)

\* model.predict(last_features_scaled)[0]: the value depends on the fitted
\* model and on the feature row; a fixed table stands for it.
ModelPredict(model, row) == 1000 + 7 * model.run + row

\* trend_days = min(90, len(df) // 2)
TrendDays(n) == Min2(90, n \div 2)

\* df['Close'].iloc[-k] for k >= 0: the k-th row from the end, row 1 for k = 0.
ILocAt(n, k) == IF k = 0 THEN 1 ELSE n - k + 1

\* The trend component with 6M counted among the longer timeframes.
TrendAdjusted_With6M(tf) == tf \in {"6M", "1Y", "5Y"}

\* if timeframe in ['1Y', '5Y']
TrendAdjusted(tf) == tf \in {"1Y", "5Y"}

\* predicted_price of a point, as <<numerator, denominator>>: the model's
\* output on the last feature row of X, plus recent_trend * days_ahead for the
\* longer timeframes. (A forecast has points only when X has rows; the frame
\* then has more than one row and trend_days is positive.)
PredictedPrice(d, tf, model, X, days_ahead) ==
    IF TrendAdjusted(tf)
    THEN <<ModelPredict(model, X.rows[Len(X.rows)]) * TrendDays(d.n)
             + (Close(d, d.n) - Close(d, ILocAt(d.n, TrendDays(d.n)))) * days_ahead,
           TrendDays(d.n)>>
    ELSE <<ModelPredict(model, X.rows[Len(X.rows)]), 1>>

\* daily_vol = df['Close'].pct_change().std(), in hundredths of a percent:
\* zero on a frame whose Close never moves; otherwise the value depends on
\* the data and a fixed one stands for it.
DailyVol(d) == IF Moves(d, d.n) = 0 THEN 0 ELSE 25

\* The band with a time factor of days_ahead / 30, without the square root.
StdDev_Linear(d, days_ahead) ==
    [coef |-> DailyVol(d) * Close(d, d.n), radicand |-> <<days_ahead * days_ahead, 900>>]

\* std_dev = daily_vol * current_price * np.sqrt(days_ahead / 30), kept as
\* coef * sqrt(radicand), radicand a fraction.
StdDev(d, days_ahead) ==
    [coef |-> DailyVol(d) * Close(d, d.n), radicand |-> <<days_ahead, 30>>]

\* predicted_price + k * std_dev
Bound(predicted, k, std_dev) == [centre |-> predicted, k |-> k, std_dev |-> std_dev]

\* The loop body with days_ahead = i * days_per_point for i from 0.
ForecastPoint_ZeroBased(d, tf, model, i) ==
    LET total_days == TimeframeDays(tf)
        days_per_point == total_days \div PredictionPoints(tf)
        days_ahead == (i - 1) * days_per_point
    IN [date |-> Strftime(DateOf(d, d.n) + days_ahead),
        daysAhead |-> days_ahead,
        model_run |-> model.run,
        predicted |-> PredictedPrice(d, tf, model, FeatureTable[d, tf], days_ahead),
        upperBound |-> Bound(PredictedPrice(d, tf, model, FeatureTable[d, tf], days_ahead),
                             2, StdDev(d, days_ahead)),
        lowerBound |-> Bound(PredictedPrice(d, tf, model, FeatureTable[d, tf], days_ahead),
                             -2, StdDev(d, days_ahead)),
        confidence |-> <<ConfidenceNum(days_ahead, total_days), total_days>>]

\* One pass of the loop over range(prediction_points), i = 1..points.
ForecastPoint(d, tf, model, i) ==
    LET total_days == TimeframeDays(tf)
        days_per_point == total_days \div PredictionPoints(tf)
        days_ahead == i * days_per_point
    IN [date |-> Strftime(DateOf(d, d.n) + days_ahead),
        daysAhead |-> days_ahead,
        model_run |-> model.run,
        predicted |-> PredictedPrice(d, tf, model, FeatureTable[d, tf], days_ahead),
        upperBound |-> Bound(PredictedPrice(d, tf, model, FeatureTable[d, tf], days_ahead),
                             2, StdDev(d, days_ahead)),
        lowerBound |-> Bound(PredictedPrice(d, tf, model, FeatureTable[d, tf], days_ahead),
                             -2, StdDev(d, days_ahead)),
        confidence |-> <<ConfidenceNum(days_ahead, total_days), total_days>>]

\* The points predict_future builds on frame d with the model of training
\* run `run`, computed once for every frame with feature rows.
ForecastTable ==
    [d \in {e \in DataSets : e.columns}, tf \in ValidTimeframes, run \in 1..(MaxRuns + 1) |->
        IF Len(FeatureTable[d, tf].rows) = 0 THEN <<>>
        ELSE [i \in 1..PredictionPoints(tf) |-> ForecastPoint(d, tf, [run |-> run], i)]]

\* predict_future from line 252 on: model and scaler are the cached objects,
\* X the feature table of the dataset passed to this call.
ForecastFrom(model, scaler, X, d, tf) ==
    IF Len(X.rows) = 0 THEN [kind |-> "list", points |-> <<>>]
    ELSE IF Len(X.columns) # scaler.n_features     \* scaler.transform
    THEN [kind |-> "raise", exc |-> "ValueError",
          args |-> <<Len(X.columns), scaler.n_features>>]
    ELSE IF ~IsTimeframe(tf)                        \* self.TIMEFRAME_DAYS[timeframe]
    THEN [kind |-> "raise", exc |-> "KeyError", args |-> <<tf>>]
    ELSE [kind |-> "list",
          points |-> ForecastTable[d, tf, model.run]]

\* The part of predict_future after the lazy training, with the cache c.
ForecastWith(c, d, key, tf) ==
    IF key \notin DOMAIN c.models THEN [kind |-> "list", points |-> <<>>]
    ELSE IF ~d.columns
    THEN [kind |-> "raise", exc |-> "KeyError", args |-> <<"Close">>]
    ELSE ForecastFrom(c.models[key], c.scalers[key], FeatureTable[d, tf], d, tf)

\* What predict_future records when it does not call train_model.
NoTraining == [kind |-> "skipped"]

\* predict_future once the lazy training t (or none) is done.
ForecastAfter(t, d, key, tf) ==
    [cache |-> t.cache, run |-> t.run, training |-> t.result,
     result |-> IF t.result.kind = "raise" THEN t.result
                ELSE ForecastWith(t.cache, d, key, tf)]

\* predict_future training on every call, cached or not.
PredictFuture_AlwaysTrains(c, run, d, symbol, tf, r2) ==
    ForecastAfter(TrainModel(c, run, d, symbol, tf, r2), d, ModelKey(symbol, tf), tf)

PredictFuture(c, run, d, symbol, tf, r2) ==
    ForecastAfter(IF ModelKey(symbol, tf) \notin DOMAIN c.models
                  THEN TrainModel(c, run, d, symbol, tf, r2)
                  ELSE [cache |-> c, run |-> run, result |-> NoTraining],
                  d, ModelKey(symbol, tf), tf)

(***************************************************************************)
(* analyze_trend(df, timeframe).                                           *)
(***************************************************************************)
\* The period without the cap at half the series length.
TrendPeriod_Uncapped(n, tf) ==
    CASE tf = "5Y" -> 200
      [] tf = "1Y" -> 100
      [] tf = "6M" -> 50
      [] OTHER -> 20

TrendPeriod(n, tf) ==
    CASE tf = "5Y" -> Min2(200, n \div 2)
      [] tf = "1Y" -> Min2(100, n \div 2)
      [] tf = "6M" -> Min2(50, n \div 2)
      [] OTHER -> Min2(20, n \div 2)

RECURSIVE SumClose(_, _, _)
\* Sum of Close over the rows lo..hi.
SumClose(d, lo, hi) == IF lo > hi THEN 0 ELSE Close(d, hi) + SumClose(d, lo, hi - 1)

\* The rows of df['Close'].iloc[start:stop] for the negative (or zero) offsets
\* the code uses: -k counts from the end, 0 is the start; stop = "end" is open.
ILocFrom(n, k) == IF k = 0 THEN 1 ELSE Max2(1, n - k + 1)
ILocUpto(n, k) == IF k = 0 THEN 0 ELSE n - k

\* The two windows of rows the means are taken over, each as <<first, last>>:
\* df['Close'].iloc[-period // 2:] and df['Close'].iloc[-period:-period // 2],
\* where -period // 2 is -ceil(period / 2).
TrendWindows(n, tf) ==
    [recent |-> <<ILocFrom(n, (TrendPeriod(n, tf) + 1) \div 2), n>>,
     older |-> <<ILocFrom(n, TrendPeriod(n, tf)),
                 ILocUpto(n, (TrendPeriod(n, tf) + 1) \div 2)>>]

\* The number of rows of a window.
WindowLen(w) == Max2(0, w[2] - w[1] + 1)

\* The comparison with >= in the place of >.
MeanGreater_OrEqual(d, recent, older) ==
    /\ WindowLen(recent) > 0
    /\ WindowLen(older) > 0
    /\ SumClose(d, recent[1], recent[2]) * WindowLen(older)
          >= SumClose(d, older[1], older[2]) * WindowLen(recent)

\* recent_avg > older_avg; the mean of no rows is NaN and compares False.
MeanGreater(d, recent, older) ==
    /\ WindowLen(recent) > 0
    /\ WindowLen(older) > 0
    /\ SumClose(d, recent[1], recent[2]) * WindowLen(older)
          > SumClose(d, older[1], older[2]) * WindowLen(recent)

AnalyzeTrend(d, tf) ==
    IF ~d.columns THEN [kind |-> "raise", exc |-> "KeyError", args |-> <<"Close">>]
    ELSE [kind |-> "value",
          trend |-> IF d.n < TrendPeriod(d.n, tf) THEN "Neutral"
                    ELSE IF MeanGreater(d, TrendWindows(d.n, tf).recent,
                                        TrendWindows(d.n, tf).older)
                    THEN "Bullish" ELSE "Bearish"]

TrendTable == [d \in DataSets, tf \in TimeframeArgs |-> AnalyzeTrend(d, tf)]

(***************************************************************************)
(* get_price_targets(current_price, timeframe, trend). Percentages are in  *)
(* hundredths of a percent; a target is a numerator over 10000.            *)
(***************************************************************************)
TargetPcts(tf) ==
    CASE tf = "1M" -> <<500, 1000, 1500>>
      [] tf = "6M" -> <<1500, 2500, 4000>>
      [] tf = "1Y" -> <<2500, 5000, 7500>>
      [] tf = "5Y" -> <<5000, 10000, 20000>>
      [] OTHER -> <<1000, 2000, 3000>>

\* The targets with the percentages halved for every trend but Bullish.
GetPriceTargets_UnlessBullish(current_price, tf, trend) ==
    LET t == TargetPcts(tf)
        adj(x) == IF trend # "Bullish" THEN x \div 2 ELSE x
    IN [conservative |-> current_price * (10000 + adj(t[1])),
        moderate |-> current_price * (10000 + adj(t[2])),
        aggressive |-> current_price * (10000 + adj(t[3])),
        conservative_pct |-> adj(t[1]),
        moderate_pct |-> adj(t[2]),
        aggressive_pct |-> adj(t[3])]

GetPriceTargets(current_price, tf, trend) ==
    LET t == TargetPcts(tf)
        adj(x) == IF trend = "Bearish" THEN x \div 2 ELSE x
    IN [conservative |-> current_price * (10000 + adj(t[1])),
        moderate |-> current_price * (10000 + adj(t[2])),
        aggressive |-> current_price * (10000 + adj(t[3])),
        conservative_pct |-> adj(t[1]),
        moderate_pct |-> adj(t[2]),
        aggressive_pct |-> adj(t[3])]

(***************************************************************************)
(* Floats that may be NaN; a comparison with NaN is False.                 *)
(***************************************************************************)
Num(v) == [nan |-> FALSE, v |-> v]
NaN == [nan |-> TRUE, v |-> 0]
Gt(a, b) == ~a.nan /\ ~b.nan /\ a.v > b.v
Lt(a, b) == ~a.nan /\ ~b.nan /\ a.v < b.v

(***************************************************************************)
(* StockMLModels.compare_models(df, symbol): its own feature table (fixed  *)
(* windows, target one row ahead), five families in a fixed order, the     *)
(* best one tracked with a strict comparison of R2.                        *)
(***************************************************************************)
ModelsToTest ==
    <<"Linear Regression", "Ridge Regression", "Lasso Regression",
      "Random Forest", "Gradient Boosting">>

\* R2 of the five fits, in hundredths.
R2Vectors == {<<10, 20, 30, 40, 50>>, <<50, 40, 30, 20, 10>>, <<30, 30, 30, 30, 30>>}

\* len(X) of StockMLModels.prepare_features: ma50 is the longest window.
CompareRows(d) ==
    Cardinality({i \in 50..(d.n - 1) : ~RsiNaN(d, i)})

CompareRowsTable == [d \in DataSets |-> CompareRows(d)]

\* The size of the test part train_test_split(test_size=0.2) makes of n rows.
NTest(n) == (n + 4) \div 5

\* r2_score of the five fits on a test part of n_test rows: r2s when it is
\* defined, NaN on fewer than two rows.
R2Scores(n_test, r2s) ==
    [i \in 1..Len(ModelsToTest) |-> IF n_test < 2 THEN NaN ELSE Num(r2s[i])]

RECURSIVE BestModel(_, _, _)
\* The loop `if r2 > best_model["r2"]: best_model = {...}` from family i on;
\* the initial best has the name "" and an R2 of -inf, below every R2 but
\* not below NaN.
BestModel(r2s, i, best) ==
    IF i > Len(r2s) THEN best
    ELSE BestModel(r2s, i + 1,
                   IF ~r2s[i].nan /\ (best.name = "" \/ Gt(r2s[i], best.r2))
                   THEN [name |-> ModelsToTest[i], r2 |-> r2s[i]] ELSE best)

\* The dict compare_models returns for the scores of the five fits.
CompareResult(scores) ==
    [kind |-> "value",
     models |-> [i \in 1..Len(ModelsToTest) |->
                    [name |-> ModelsToTest[i], r2 |-> scores[i]]],
     best_model |-> BestModel(scores, 1, [name |-> "", r2 |-> NaN]).name]

CompareModels(d, r2s) ==
    IF ~d.columns THEN [kind |-> "raise", exc |-> "KeyError", args |-> <<"Close">>]
    ELSE IF CompareRowsTable[d] < 2     \* train_test_split leaves no training row
    THEN [kind |-> "raise", exc |-> "ValueError", args |-> <<CompareRowsTable[d]>>]
    ELSE CompareResult(R2Scores(NTest(CompareRowsTable[d]), r2s))

(***************************************************************************)
(* StockMLModels.generate_recommendation(models_result, technical). The    *)
(* last row of the indicator frame holds floats that may be NaN (a rolling *)
(* window not yet full, an RSI of 0/0).                                    *)
(***************************************************************************)
\* The score with RSI <= 30 counted as oversold.
Score_RsiInclusive(price, ma20, ma50, rsi, avg_pred_change, r2) ==
    (IF Gt(price, ma20) THEN 1 ELSE 0)
    + (IF Gt(price, ma50) THEN 1 ELSE 0)
    + (IF Gt(ma20, ma50) THEN 1 ELSE 0)
    + (IF Lt(Num(30), rsi) /\ Lt(rsi, Num(70)) THEN 1
       ELSE IF ~rsi.nan /\ rsi.v <= 30 THEN 2 ELSE 0)
    + (IF avg_pred_change > 0 THEN 2 ELSE 0)
    + (IF r2 > 50 THEN 1 ELSE 0)

\* The scoring system; r2 in hundredths.
Score(price, ma20, ma50, rsi, avg_pred_change, r2) ==
    (IF Gt(price, ma20) THEN 1 ELSE 0)
    + (IF Gt(price, ma50) THEN 1 ELSE 0)
    + (IF Gt(ma20, ma50) THEN 1 ELSE 0)
    + (IF Lt(Num(30), rsi) /\ Lt(rsi, Num(70)) THEN 1
       ELSE IF Lt(rsi, Num(30)) THEN 2 ELSE 0)
    + (IF avg_pred_change > 0 THEN 2 ELSE 0)
    + (IF r2 > 50 THEN 1 ELSE 0)

\* Risk level based on volatility
RiskLevel(volatility) ==
    IF Gt(volatility, Num(40)) THEN "High"
    ELSE IF Gt(volatility, Num(25)) THEN "Medium" ELSE "Low"

\* The ladder on the score.
ScoreLadder(score) ==
    IF score >= 6 THEN <<"STRONG BUY", "High">>
    ELSE IF score >= 4 THEN <<"BUY", "Medium">>
    ELSE IF score >= 2 THEN <<"HOLD", "Medium">>
    ELSE <<"SELL", "Low">>

GenerateRecommendation(price, ma20, ma50, rsi, avg_pred_change, r2, volatility) ==
    [recommendation |-> ScoreLadder(Score(price, ma20, ma50, rsi, avg_pred_change, r2))[1],
     confidence |-> ScoreLadder(Score(price, ma20, ma50, rsi, avg_pred_change, r2))[2],
     risk |-> RiskLevel(volatility)]

(***************************************************************************)
(* GET /live/stocks/{symbol}/predict (predict_live_stock). `answer` is     *)
(* what the static provider gives: unavailable, None or a DataFrame.       *)
(* The handler has no await: it runs to completion once it starts.         *)
(***************************************************************************)
\* The histories the provider's file holds for a symbol, one per period.
ServedFrames(symbol) ==
    {d \in DataOf(symbol) :
        d.n > 0 /\ d.id \in {"rows10", "rows60", "rows470", "rows300", "flat300"}}

ProviderAnswers(symbol) ==
    {[kind |-> "unavailable"], [kind |-> "none"]}
        \cup {[kind |-> "frame", df |-> d] : d \in ServedFrames(symbol)}

HttpError(status, detail) == [status |-> status, detail |-> detail]

\* The ladder with R2 >= 0.5 in the place of R2 > 0.5.
Recommend_AtLeast(trend, r2) ==
    IF trend = "Bullish" /\ r2 >= 50 THEN <<"BUY", "High">>
    ELSE IF trend = "Bullish" THEN <<"BUY", "Medium">>
    ELSE IF trend = "Bearish" /\ r2 >= 50 THEN <<"SELL", "High">>
    ELSE <<"HOLD", "Low">>

\* The recommendation ladder on (trend, R2 in hundredths).
Recommend(trend, r2) ==
    IF trend = "Bullish" /\ r2 > 50 THEN <<"BUY", "High">>
    ELSE IF trend = "Bullish" THEN <<"BUY", "Medium">>
    ELSE IF trend = "Bearish" /\ r2 > 50 THEN <<"SELL", "High">>
    ELSE <<"HOLD", "Low">>

\* Lines 544-576: the response once train_model (t) and predict_future (f)
\* have returned.
LiveResponse(t, f, symbol, tf, trend, current_price) ==
    IF f.result.kind = "raise"
    THEN [cache |-> f.cache, run |-> f.run, trained |-> t.result.run,
          response |-> HttpError(500, <<f.result.exc>>)]
    ELSE [cache |-> f.cache, run |-> f.run, trained |-> t.result.run,
          response |-> [status |-> 200,
                        symbol |-> symbol,
                        timeframe |-> tf,
                        currentPrice |-> current_price,
                        predictions |-> f.result.points,
                        modelMetrics |-> t.result.metrics,
                        metricsRun |-> t.result.run,
                        trend |-> trend,
                        priceTargets |-> GetPriceTargets(current_price, tf, trend),
                        recommendation |-> Recommend(trend, t.result.metrics.r2)[1],
                        confidence |-> Recommend(trend, t.result.metrics.r2)[2],
                        predictionPoints |-> Len(f.result.points)]]

\* Lines 538-542: after train_model returned t.
LiveAfterTrain(t, data, symbol, tf, r2) ==
    IF t.result.kind = "error"
    THEN [cache |-> t.cache, run |-> t.run, trained |-> 0,
          response |-> HttpError(400, t.result.error)]
    ELSE LiveResponse(t, PredictFuture(t.cache, t.run, data, symbol, tf, r2),
                      symbol, tf, TrendTable[data, tf].trend, Close(data, data.n))

PredictLiveStock(c, run, symbol, tf, answer, r2) ==
    IF tf \notin {"1M", "6M", "1Y", "5Y"}
    THEN [cache |-> c, run |-> run, trained |-> 0,
          response |-> HttpError(400, <<"Timeframe must be 1M, 6M, 1Y, or 5Y">>)]
    ELSE IF answer.kind = "unavailable"  \* not static_provider.is_available()
    THEN [cache |-> c, run |-> run, trained |-> 0,
          response |-> HttpError(503, <<"Static data not available">>)]
    ELSE IF answer.kind = "none" \/ answer.df.n = 0   \* df is None or df.empty
    THEN [cache |-> c, run |-> run, trained |-> 0,
          response |-> HttpError(404, <<"No data found for ", symbol>>)]
    ELSE LiveAfterTrain(TrainModel(c, run, answer.df, symbol, tf, r2),
                        answer.df, symbol, tf, r2)

(***************************************************************************)
(* State machine.                                                          *)
(* models, scalers, feature_importance: the dicts of the one               *)
(*   MultiTimeframePredictor of the process (timeframe_predictor).         *)
(* nextRun: the number the next successful training run gets.              *)
(* last: the call of the engine that has just returned, with its arguments *)
(*   and outcome, until the caller takes the result (Idle).                *)
(* reqs: the HTTP requests received, each with the position of its         *)
(*   handler: pending, at line 193 of train_model, trained, or done.       *)
(***************************************************************************)
Idle == [op |-> "idle"]

Prices == {0, 100}
Trends == {"Bullish", "Bearish", "Neutral"}

Cache == [models |-> models, scalers |-> scalers,
          feature_importance |-> feature_importance]

SetCache(c) ==
    /\ models' = c.models
    /\ scalers' = c.scalers
    /\ feature_importance' = c.feature_importance

Init ==
    /\ models = EmptyDict
    /\ scalers = EmptyDict
    /\ feature_importance = EmptyDict
    /\ nextRun = 1
    /\ last = Idle
    /\ reqs = EmptyDict

\* timeframe_predictor.train_model(df, symbol, timeframe)
TrainDone(t, d, symbol, tf) ==
    /\ t.run <= MaxRuns + 1
    /\ SetCache(t.cache)
    /\ nextRun' = t.run
    /\ last' = [op |-> "train", df |-> d, symbol |-> symbol, tf |-> tf,
                result |-> t.result]
    /\ UNCHANGED reqs

Train(d, symbol, tf, r2) ==
    /\ last = Idle
    /\ TrainDone(TrainModel(Cache, nextRun, d, symbol, tf, r2), d, symbol, tf)

\* timeframe_predictor.predict_future(df, symbol, timeframe)
ForecastDone(f, d, symbol, tf) ==
    /\ f.run <= MaxRuns + 1
    /\ SetCache(f.cache)
    /\ nextRun' = f.run
    /\ last' = [op |-> "forecast", df |-> d, symbol |-> symbol, tf |-> tf,
                training |-> f.training, result |-> f.result]
    /\ UNCHANGED reqs

Forecast(d, symbol, tf, r2) ==
    /\ last = Idle
    /\ ForecastDone(PredictFuture(Cache, nextRun, d, symbol, tf, r2), d, symbol, tf)

\* timeframe_predictor.analyze_trend(df, timeframe)
Trend(d, tf) ==
    /\ last = Idle
    /\ last' = [op |-> "trend", df |-> d, tf |-> tf, result |-> TrendTable[d, tf]]
    /\ UNCHANGED <<cache, nextRun, reqs>>

\* timeframe_predictor.get_price_targets(current_price, timeframe, trend)
PriceTargets(price, tf, trend) ==
    /\ last = Idle
    /\ last' = [op |-> "targets", price |-> price, tf |-> tf, trend |-> trend,
                result |-> [kind |-> "value",
                            targets |-> GetPriceTargets(price, tf, trend)]]
    /\ UNCHANGED <<cache, nextRun, reqs>>

\* ml_models.compare_models(df, symbol)
Compare(d, r2s) ==
    /\ last = Idle
    /\ last' = [op |-> "compare", df |-> d, result |-> CompareModels(d, r2s)]
    /\ UNCHANGED <<cache, nextRun, reqs>>

\* The caller takes the result.
Return ==
    /\ last # Idle
    /\ last' = Idle
    /\ UNCHANGED <<cache, nextRun, reqs>>

\* A request for /live/stocks/{symbol}/predict?timeframe=tf reaches the server.
Arrive(symbol, tf) ==
    LET id == Cardinality(DOMAIN reqs) + 1 IN
    /\ id <= MaxReqs
    /\ reqs' = Put(reqs, id,
                   [symbol |-> symbol, tf |-> tf, status |-> "pending",
                    absentAtArrival |-> ModelKey(symbol, tf) \notin DOMAIN models,
                    pendingAtArrival |->
                        {r \in DOMAIN reqs : reqs[r].status = "pending"}])
    /\ UNCHANGED <<cache, nextRun, last>>

\* The handler of request id returns: h is its outcome.
HandleDone(h, id) ==
    /\ h.run <= MaxRuns + 1
    /\ SetCache(h.cache)
    /\ nextRun' = h.run
    /\ reqs' = [reqs EXCEPT ![id] =
                   [symbol |-> reqs[id].symbol, tf |-> reqs[id].tf,
                    status |-> "done",
                    absentAtArrival |-> reqs[id].absentAtArrival,
                    pendingAtArrival |-> reqs[id].pendingAtArrival,
                    trained |-> h.trained,
                    response |-> h.response]]
    /\ UNCHANGED last

\* Handlers running on worker threads (def in the place of async def): a
\* handler may start while another one is running.
LoopIdle_Threaded == TRUE

\* predict_live_stock is a coroutine without an await and uvicorn runs one
\* event loop: a handler starts only when no other handler is running.
LoopIdle == \A r \in DOMAIN reqs : reqs[r].status \in {"pending", "done"}

\* Request id with its handler inside or after train_model: the locals of
\* the handler (df, training_result) and of train_model (scaler,
\* feature_importance) next to what the request carried.
InHandler(req, status, d, r2, t) ==
    [symbol |-> req.symbol, tf |-> req.tf, status |-> status,
     absentAtArrival |-> req.absentAtArrival,
     pendingAtArrival |-> req.pendingAtArrival,
     df |-> d, r2 |-> r2,
     training |-> [kind |-> "ok", run |-> t.result.run,
                   metrics |-> t.result.metrics],
     scaler |-> t.cache.scalers[ModelKey(req.symbol, req.tf)],
     importance |-> t.cache.feature_importance[ModelKey(req.symbol, req.tf)]]

\* The event loop starts the handler of a pending request. The handler runs
\* to an HTTPException of lines 515-539, or through the fit to line 193
\* of train_model, where self.models[model_key] is assigned.
Handle(id, answer, r2) ==
    /\ id \in DOMAIN reqs
    /\ reqs[id].status = "pending"
    /\ LoopIdle
    /\ IF PredictLiveStock(Cache, nextRun, reqs[id].symbol, reqs[id].tf,
                           answer, r2).trained = 0
       THEN HandleDone(PredictLiveStock(Cache, nextRun, reqs[id].symbol,
                                        reqs[id].tf, answer, r2), id)
       ELSE /\ nextRun + 1 <= MaxRuns + 1
            /\ models' = TrainModel(Cache, nextRun, answer.df, reqs[id].symbol,
                                    reqs[id].tf, r2).cache.models
            /\ nextRun' = nextRun + 1
            /\ reqs' = [reqs EXCEPT ![id] =
                           InHandler(reqs[id], "line193", answer.df, r2,
                                     TrainModel(Cache, nextRun, answer.df,
                                                reqs[id].symbol, reqs[id].tf, r2))]
            /\ UNCHANGED <<scalers, feature_importance, last>>

\* Lines 194-223: train_model assigns self.scalers[model_key] and
\* self.feature_importance[model_key] and returns to the handler.
StoreScaler(id) ==
    /\ id \in DOMAIN reqs
    /\ reqs[id].status = "line193"
    /\ scalers' = Put(scalers, ModelKey(reqs[id].symbol, reqs[id].tf),
                      reqs[id].scaler)
    /\ feature_importance' =
           Put(feature_importance, ModelKey(reqs[id].symbol, reqs[id].tf),
               reqs[id].importance)
    /\ reqs' = [reqs EXCEPT ![id].status = "trained"]
    /\ UNCHANGED <<models, nextRun, last>>

\* Lines 542-576: predict_future on the cache as it is now, then the
\* response.
Respond(id) ==
    /\ id \in DOMAIN reqs
    /\ reqs[id].status = "trained"
    /\ HandleDone(LiveResponse([result |-> reqs[id].training],
                               PredictFuture(Cache, nextRun, reqs[id].df,
                                             reqs[id].symbol, reqs[id].tf,
                                             reqs[id].r2),
                               reqs[id].symbol, reqs[id].tf,
                               TrendTable[reqs[id].df, reqs[id].tf].trend,
                               Close(reqs[id].df, reqs[id].df.n)), id)

Next ==
    \/ \E symbol \in Symbols, tf \in TimeframeArgs, r2 \in R2Values :
          \E d \in DataOf(symbol) : Train(d, symbol, tf, r2)
    \/ \E symbol \in Symbols, tf \in TimeframeArgs, r2 \in R2Values :
          \E d \in DataOf(symbol) : Forecast(d, symbol, tf, r2)
    \/ \E d \in DataSets, tf \in TimeframeArgs : Trend(d, tf)
    \/ \E price \in Prices, tf \in TimeframeArgs, trend \in Trends :
          PriceTargets(price, tf, trend)
    \/ \E d \in DataSets, r2s \in R2Vectors : Compare(d, r2s)
    \/ Return

Spec == Init /\ [][Next]_vars

NextApi ==
    \/ \E symbol \in Symbols, tf \in ApiTimeframes : Arrive(symbol, tf)
    \/ \E id \in DOMAIN reqs, r2 \in R2Values :
          \E answer \in ProviderAnswers(reqs[id].symbol) : Handle(id, answer, r2)
    \/ \E id \in DOMAIN reqs : StoreScaler(id)
    \/ \E id \in DOMAIN reqs : Respond(id)

SpecApi == Init /\ [][NextApi]_vars

(***************************************************************************)
(* generate_recommendation on its own: a function of the last indicator    *)
(* row and of the training result, applied to inputs around its            *)
(* thresholds.                                                             *)
(***************************************************************************)
Ma20Values == {NaN, Num(90), Num(100), Num(110)}
Ma50Values == {NaN, Num(85), Num(100), Num(115)}
RsiValues == {NaN, Num(20), Num(30), Num(50), Num(70), Num(80)}
AvgPredChanges == {-1, 0, 1}
VolatilityValues == {NaN, Num(25), Num(40), Num(41)}

\* ml_models.generate_recommendation(models_result, technical)
Recommendation(ma20, ma50, rsi, avg, r2, volatility) ==
    /\ last = Idle
    /\ last' = [op |-> "recommendation", price |-> Num(100), ma20 |-> ma20,
                ma50 |-> ma50, rsi |-> rsi, avg_pred_change |-> avg, r2 |-> r2,
                volatility |-> volatility,
                result |-> GenerateRecommendation(Num(100), ma20, ma50, rsi, avg,
                                                  r2, volatility)]
    /\ UNCHANGED <<cache, nextRun, reqs>>

NextScore ==
    \/ \E ma20 \in Ma20Values, ma50 \in Ma50Values, rsi \in RsiValues :
          \E avg \in AvgPredChanges, r2 \in R2Values, volatility \in VolatilityValues :
              Recommendation(ma20, ma50, rsi, avg, r2, volatility)
    \/ Return

SpecScore == Init /\ [][NextScore]_vars

(***************************************************************************)
(* Properties of the engine and of the endpoint.                           *)
(***************************************************************************)
\* The cache key of the engine call recorded in a state's `last`.
KeyOf(call) == ModelKey(call.symbol, call.tf)

\* The documented floor of engineered feature rows per timeframe.
DocumentedFloor == [tf \in ValidTimeframes |->
    CASE tf = "1M" -> 30 [] tf = "6M" -> 60 [] tf = "1Y" -> 100 [] tf = "5Y" -> 200]

\* The documented number of forecast points per timeframe.
DocumentedPoints == [tf \in ValidTimeframes |->
    CASE tf = "1M" -> 30 [] tf = "6M" -> 26 [] tf = "1Y" -> 52 [] tf = "5Y" -> 60]

\* A step in which train_model / predict_future is called and returns.
IsTrainStep == last = Idle /\ last'.op = "train"
IsForecastStep == last = Idle /\ last'.op = "forecast"

\* C1: when the feature rows built from the dataset number fewer than the
\* floor of the timeframe (1M 30, 6M 60, 1Y 100, 5Y 200), train_model does
\* not raise: it returns the insufficient-data result with an error message
\* and rmse, mae, r2 and mape all zero, and the three cache dicts are the
\* same after the call as before it.
C1_InsufficientDataResult ==
    [][(/\ IsTrainStep
        /\ last'.tf \in ValidTimeframes
        /\ last'.df.columns
        /\ Len(FeatureTable[last'.df, last'.tf].rows) < DocumentedFloor[last'.tf])
       => /\ last'.result.kind = "error"
          /\ Len(last'.result.error) > 0
          /\ last'.result.metrics = [rmse |-> 0, mae |-> 0, r2 |-> 0, mape |-> 0]
          /\ cache' = cache]_vars

\* A 10-row dataset was trained for 1Y after another key had been cached.
C1_Witness ==
    /\ last.op = "train"
    /\ last.df.id = "rows10"
    /\ last.tf = "1Y"
    /\ last.result.kind = "error"
    /\ DOMAIN models # {}

\* C2: predict_future calls train_model only when the key is absent from the
\* cache. With the key cached it trains nothing, leaves the cache alone and
\* every point comes from the cached model. With the key absent it trains;
\* if that training ends in the insufficient-data result the forecast is the
\* empty list and the key is still absent.
C2_LazyTraining ==
    [][IsForecastStep =>
        /\ KeyOf(last') \in DOMAIN models =>
              /\ last'.training = NoTraining
              /\ cache' = cache
              /\ nextRun' = nextRun
              /\ last'.result.kind = "list" =>
                    \A i \in 1..Len(last'.result.points) :
                        last'.result.points[i].model_run = models[KeyOf(last')].run
        /\ KeyOf(last') \notin DOMAIN models =>
              /\ last'.training # NoTraining
              /\ last'.training.kind = "error" =>
                    /\ last'.result = [kind |-> "list", points |-> <<>>]
                    /\ KeyOf(last') \notin DOMAIN models'
                    /\ cache' = cache]_vars

\* A forecast for an absent key whose lazy training had too few rows.
C2_Witness ==
    /\ last.op = "forecast"
    /\ last.training.kind = "error"
    /\ last.result = [kind |-> "list", points |-> <<>>]
    /\ KeyOf(last) \notin DOMAIN models
    /\ DOMAIN models # {}

\* C3: no step removes a key from models, scalers or feature_importance, and
\* the entry of a key changes only in a step in which train_model is called
\* for that same key and fits: forecasts on cached keys, trend analyses,
\* price targets and model comparisons leave every entry as it was.
C3_CacheEntriesStay ==
    [][\A k \in DOMAIN models :
          /\ k \in DOMAIN models'
          /\ k \in DOMAIN scalers'
          /\ k \in DOMAIN feature_importance'
          /\ (\/ models'[k] # models[k]
              \/ scalers'[k] # scalers[k]
              \/ feature_importance'[k] # feature_importance[k])
             => /\ IsTrainStep
                /\ KeyOf(last') = k
                /\ last'.result.kind = "ok"]_vars

\* A forecast served from the cache while a second key is cached as well.
C3_Witness ==
    /\ last.op = "forecast"
    /\ last.training = NoTraining
    /\ last.result.kind = "list"
    /\ last.result.points # <<>>
    /\ Cardinality(DOMAIN models) = 2

\* The pairs are ranked: importance never increases down the list.
IsDescending(pairs) ==
    \A i \in 1..(Len(pairs) - 1) : pairs[i][2] >= pairs[i + 1][2]

\* The pairs are exactly the columns, each with the importance that training
\* run `run` gave to it.
RanksColumnsOf(pairs, columns, run) ==
    /\ Len(pairs) = Len(columns)
    /\ \A j \in 1..Len(columns) :
          \E i \in 1..Len(pairs) : pairs[i] = <<columns[j], Importance(run, j)>>

\* C4: when train_model fits, the cache holds under symbol_timeframe the
\* model and the scaler fitted by that very call and the ranking of that
\* call's feature columns by descending importance; the entries of every
\* other key are what they were before the call.
C4_TrainStoresUnderKey ==
    [][(IsTrainStep /\ last'.result.kind = "ok") =>
        /\ last'.result.run = nextRun
        /\ DOMAIN models' = DOMAIN models \cup {KeyOf(last')}
        /\ DOMAIN scalers' = DOMAIN models'
        /\ DOMAIN feature_importance' = DOMAIN models'
        /\ models'[KeyOf(last')].run = last'.result.run
        /\ models'[KeyOf(last')].n_features = Len(last'.result.feature_columns)
        /\ scalers'[KeyOf(last')].run = last'.result.run
        /\ IsDescending(feature_importance'[KeyOf(last')])
        /\ RanksColumnsOf(feature_importance'[KeyOf(last')],
                          last'.result.feature_columns, last'.result.run)
        /\ \A k \in DOMAIN models \ {KeyOf(last')} :
              /\ models'[k] = models[k]
              /\ scalers'[k] = scalers[k]
              /\ feature_importance'[k] = feature_importance[k]]_vars

\* The second fit has just been stored next to the entry of another key.
C4_Witness ==
    /\ last.op = "train"
    /\ last.result.kind = "ok"
    /\ last.result.run = 2
    /\ Cardinality(DOMAIN models) = 2
    /\ \E k \in DOMAIN models : models[k].run = 1

\* C5 as documented: of two requests for the same key that were pending
\* together while the key was not cached, exactly one executes a training,
\* and both are answered from that one model.
C5_SingleFlight ==
    \A r1 \in DOMAIN reqs, r2 \in DOMAIN reqs :
        (/\ r1 < r2
         /\ reqs[r1].status = "done"
         /\ reqs[r2].status = "done"
         /\ reqs[r1].symbol = reqs[r2].symbol
         /\ reqs[r1].tf = reqs[r2].tf
         /\ r1 \in reqs[r2].pendingAtArrival
         /\ reqs[r2].absentAtArrival
         /\ reqs[r1].response.status = 200
         /\ reqs[r2].response.status = 200)
        => /\ ~(reqs[r1].trained # 0 /\ reqs[r2].trained # 0)
           /\ reqs[r1].response.metricsRun = reqs[r2].response.metricsRun

\* C6: the feature table is split in order, without shuffling: the training
\* slice is its first floor(0.8 n) rows and the test slice the rest, both
\* are non-empty, and every training date is earlier than every test date.
C6_ChronologicalSplit ==
    (last.op = "train" /\ last.result.kind = "ok") =>
        LET tr == last.result.X_train
            te == last.result.X_test
            n  == Len(tr) + Len(te)
        IN /\ tr \o te = FeatureTable[last.df, last.tf].rows
           /\ 5 * Len(tr) <= 4 * n
           /\ 4 * n < 5 * (Len(tr) + 1)
           /\ Len(tr) > 0
           /\ Len(te) > 0
           /\ \A i \in 1..Len(tr) :
                 DateOf(last.df, tr[i]) <
                     SetMin({DateOf(last.df, te[j]) : j \in 1..Len(te)})

\* A fit on the 300-row weekday dataset, whose feature table has holes.
C6_Witness ==
    /\ last.op = "train"
    /\ last.result.kind = "ok"
    /\ last.df.id = "rows300"
    /\ last.tf = "1Y"

\* A forecast call has returned a non-empty list of points.
HasForecast ==
    /\ last.op = "forecast"
    /\ last.result.kind = "list"
    /\ last.result.points # <<>>

\* C7: a non-empty forecast has exactly 30 (1M), 26 (6M), 52 (1Y) or 60 (5Y)
\* points; daysAhead and the date both strictly increase from one point to
\* the next, and the first date is later than the last date of the dataset.
C7_ForecastShape ==
    HasForecast =>
        LET ps == last.result.points IN
        /\ last.tf \in ValidTimeframes
        /\ Len(ps) = DocumentedPoints[last.tf]
        /\ \A i \in 1..(Len(ps) - 1) :
              /\ ps[i].daysAhead < ps[i + 1].daysAhead
              /\ DateStrLess(ps[i].date, ps[i + 1].date)
        /\ DateStrLess(Strftime(DateOf(last.df, last.df.n)), ps[1].date)

\* A five-year forecast on the weekday dataset.
C7_Witness ==
    /\ HasForecast
    /\ last.tf = "5Y"
    /\ last.df.id = "rows470"

\* C8: within a forecast the confidence never rises from a point to the
\* next; the first is at most 100 and the last at least 0. A confidence is
\* the fraction numerator / denominator.
C8_ConfidenceDecays ==
    HasForecast =>
        LET ps == last.result.points IN
        /\ \A i \in 1..(Len(ps) - 1) :
              ps[i].confidence[1] * ps[i + 1].confidence[2]
                  >= ps[i + 1].confidence[1] * ps[i].confidence[2]
        /\ ps[1].confidence[1] <= 100 * ps[1].confidence[2]
        /\ ps[Len(ps)].confidence[1] >= 0
        /\ \A i \in 1..Len(ps) : ps[i].confidence[2] > 0

\* A six-month forecast, whose last point lies 156 of 180 days ahead.
C8_Witness ==
    /\ HasForecast
    /\ last.tf = "6M"
    /\ last.result.points[26].confidence[1] < last.result.points[1].confidence[1]

\* C9 as documented: train_model, predict_future, analyze_trend and
\* get_price_targets reject a timeframe outside 1M, 6M, 1Y, 5Y: the call
\* ends in an exception or an error result, and no cache entry exists for a
\* key with such a timeframe.
C9_InvalidTimeframeRejected ==
    /\ (last.op \in {"train", "forecast", "trend", "targets"}
            /\ last.tf \notin ValidTimeframes)
       => last.result.kind \in {"raise", "error"}
    /\ \A symbol \in Symbols, tf \in TimeframeArgs \ ValidTimeframes :
          ModelKey(symbol, tf) \notin DOMAIN models

\* C10 as documented: train_model on a dataset without rows or without the
\* price columns raises an error that names the symbol and the timeframe; it
\* does not return the insufficient-data result.
C10_EmptyDatasetFailsFast ==
    (last.op = "train" /\ (last.df.n = 0 \/ ~last.df.columns)) =>
        /\ last.result.kind = "raise"
        /\ \E i \in 1..Len(last.result.args) : last.result.args[i] = last.symbol
        /\ \E i \in 1..Len(last.result.args) : last.result.args[i] = last.tf

\* The documented comparison period per timeframe, before the cap.
DocumentedPeriod == [tf \in ValidTimeframes |->
    CASE tf = "1M" -> 20 [] tf = "6M" -> 50 [] tf = "1Y" -> 100 [] tf = "5Y" -> 200]

Answered == {id \in DOMAIN reqs : reqs[id].status = "done" /\ reqs[id].response.status = 200}

\* C12: in every forecast response the recommendation follows from the trend
\* and the R2 (in hundredths) of the response: Bullish with R2 > 0.5 gives
\* BUY/High, Bullish otherwise BUY/Medium, Bearish with R2 > 0.5 SELL/High,
\* everything else HOLD/Low; SELL comes only with High, HOLD only with Low.
C12_TrendR2Ladder ==
    \A id \in Answered :
        LET rsp == reqs[id].response
            r2 == rsp.modelMetrics.r2
            rec == <<rsp.recommendation, rsp.confidence>>
        IN /\ (rsp.trend = "Bullish" /\ r2 > 50) => rec = <<"BUY", "High">>
           /\ (rsp.trend = "Bullish" /\ r2 <= 50) => rec = <<"BUY", "Medium">>
           /\ (rsp.trend = "Bearish" /\ r2 > 50) => rec = <<"SELL", "High">>
           /\ (rsp.trend = "Bearish" /\ r2 <= 50) => rec = <<"HOLD", "Low">>
           /\ rsp.trend = "Neutral" => rec = <<"HOLD", "Low">>
           /\ rec \in {<<"BUY", "High">>, <<"BUY", "Medium">>,
                       <<"SELL", "High">>, <<"HOLD", "Low">>}

\* A Bearish series answered with an R2 of exactly 0.5: HOLD/Low.
C12_Witness ==
    \E id \in Answered :
        /\ reqs[id].response.trend = "Bearish"
        /\ reqs[id].response.modelMetrics.r2 = 50
        /\ reqs[id].response.recommendation = "HOLD"

\* The documented target percentages per timeframe.
DocumentedPcts == [tf \in ValidTimeframes |->
    CASE tf = "1M" -> <<5, 10, 15>> [] tf = "6M" -> <<15, 25, 40>>
      [] tf = "1Y" -> <<25, 50, 75>> [] tf = "5Y" -> <<50, 100, 200>>]

\* price * (1 + p/100), or price * (1 + p/200) under a Bearish trend, as a
\* numerator over 10000.
DocumentedTarget(price, p, trend) ==
    IF trend = "Bearish" THEN price * (200 + p) * 50 ELSE price * (100 + p) * 100

\* C13: get_price_targets answers currentPrice * (1 + p) for the three
\* percentages of the timeframe, each halved exactly when the trend is
\* Bearish; for 1Y, Bearish and a price of 100 that is 112.5, 125 and 137.5;
\* and conservative <= moderate <= aggressive for a price of 0 or more.
C13_PriceTargets ==
    (last.op = "targets" /\ last.tf \in ValidTimeframes) =>
        LET t == last.result.targets
            p == DocumentedPcts[last.tf]
        IN /\ t.conservative = DocumentedTarget(last.price, p[1], last.trend)
           /\ t.moderate = DocumentedTarget(last.price, p[2], last.trend)
           /\ t.aggressive = DocumentedTarget(last.price, p[3], last.trend)
           /\ (last.tf = "1Y" /\ last.trend = "Bearish" /\ last.price = 100) =>
                 <<t.conservative, t.moderate, t.aggressive>>
                     = <<1125000, 1250000, 1375000>>
           /\ last.price >= 0 =>
                 (t.conservative <= t.moderate /\ t.moderate <= t.aggressive)

\* The documented example: 1Y, Bearish, 100.
C13_Witness ==
    /\ last.op = "targets"
    /\ last.tf = "1Y"
    /\ last.trend = "Bearish"
    /\ last.price = 100
    /\ last.result.targets.conservative = 1125000

\* 1 when the comparison holds, 0 when it does not (or an operand is NaN).
Bracket(b) == IF b THEN 1 ELSE 0

\* The documented score of the call recorded in `last`.
DocumentedScore ==
    Bracket(Gt(last.price, last.ma20)) + Bracket(Gt(last.price, last.ma50))
    + Bracket(Gt(last.ma20, last.ma50))
    + (IF Gt(last.rsi, Num(30)) /\ Lt(last.rsi, Num(70)) THEN 1
       ELSE IF Lt(last.rsi, Num(30)) THEN 2 ELSE 0)
    + 2 * Bracket(last.avg_pred_change > 0)
    + Bracket(last.r2 > 50)

\* C14: generate_recommendation scores one point each for price > MA20,
\* price > MA50 and MA20 > MA50, one for 30 < RSI < 70 or two for RSI < 30,
\* two for a positive mean of prediction - actual and one for R2 > 0.5; the
\* score lies in 0..8 and gives STRONG BUY/High from 6, BUY/Medium from 4,
\* HOLD/Medium from 2 and SELL/Low below; an RSI of exactly 30, or of 70 and
\* more, adds nothing.
C14_WeightedScore ==
    last.op = "recommendation" =>
        LET rec == <<last.result.recommendation, last.result.confidence>> IN
        /\ DocumentedScore \in 0..8
        /\ DocumentedScore >= 6 => rec = <<"STRONG BUY", "High">>
        /\ (4 <= DocumentedScore /\ DocumentedScore < 6) => rec = <<"BUY", "Medium">>
        /\ (2 <= DocumentedScore /\ DocumentedScore < 4) => rec = <<"HOLD", "Medium">>
        /\ DocumentedScore < 2 => rec = <<"SELL", "Low">>

\* An RSI of exactly 30 with everything else in favour: 3 + 0 + 2 + 1 = 6.
C14_Witness ==
    /\ last.op = "recommendation"
    /\ last.rsi = Num(30)
    /\ DocumentedScore = 6
    /\ last.result.recommendation = "STRONG BUY"

\* A comparison of models has returned its result.
HasComparison == last.op = "compare" /\ last.result.kind = "value"

\* a >= b on floats: False when either is NaN.
Ge(a, b) == ~a.nan /\ ~b.nan /\ a.v >= b.v

\* C15 as documented: compare_models returns one result for each of the
\* five families, and best_model names a returned result whose R2 is at
\* least the R2 of every returned result.
C15_BestOfFive ==
    HasComparison =>
        LET ms == last.result.models IN
        /\ Len(ms) = 5
        /\ {ms[i].name : i \in 1..Len(ms)} =
              {"Linear Regression", "Ridge Regression", "Lasso Regression",
               "Random Forest", "Gradient Boosting"}
        /\ \E i \in 1..Len(ms) :
              /\ ms[i].name = last.result.best_model
              /\ \A j \in 1..Len(ms) : Ge(ms[i].r2, ms[j].r2)

\* C16 as documented: the results of compare_models are ranked: where every
\* R2 is defined, R2 never increases along the list and the first entry is
\* the one named best.
C16_RankedResults ==
    (HasComparison /\ \A k \in 1..5 : ~last.result.models[k].r2.nan) =>
        LET ms == last.result.models IN
        /\ \A i \in 1..(Len(ms) - 1) : Ge(ms[i].r2, ms[i + 1].r2)
        /\ ms[1].name = last.result.best_model

\* The documented length of each horizon in days.
DocumentedDays == [tf \in ValidTimeframes |->
    CASE tf = "1M" -> 30 [] tf = "6M" -> 180 [] tf = "1Y" -> 365 [] tf = "5Y" -> 1825]

\* C17 as documented: the i-th point of a forecast lies i * (total_days /
\* points) days ahead, so the last point lies total_days ahead: 30 for 1M,
\* 180 for 6M, 365 for 1Y, 1825 for 5Y.
C17_SpansHorizon ==
    (HasForecast /\ last.tf \in ValidTimeframes) =>
        LET ps == last.result.points IN
        /\ \A i \in 1..Len(ps) :
              ps[i].daysAhead * DocumentedPoints[last.tf] = i * DocumentedDays[last.tf]
        /\ ps[Len(ps)].daysAhead = DocumentedDays[last.tf]

\* C18 as documented: the confidence of a forecast decays linearly from
\* below 100 to exactly 50 at the last point, and is never below 50.
C18_DecaysToFifty ==
    HasForecast =>
        LET ps == last.result.points
            num(i) == ps[i].confidence[1]
            den(i) == ps[i].confidence[2]
        IN /\ num(1) < 100 * den(1)
           /\ num(Len(ps)) = 50 * den(Len(ps))
           /\ \A i \in 1..Len(ps) : num(i) >= 50 * den(i)
           /\ \A i \in 1..(Len(ps) - 1) :
                 /\ den(i) = den(1)
                 /\ num(i) - num(i + 1) = num(1) - num(2)

\* The documented window of the trend rate.
DocumentedW(n) == IF 90 <= n \div 2 THEN 90 ELSE n \div 2

\* C19: every point of a forecast carries base + adj(i): base is the output
\* of the cached model on the last feature row, the same for all points;
\* adj(i) is 0 for 1M and 6M, and trend_rate * daysAhead(i) for 1Y and 5Y
\* with trend_rate = (last_close - close[-w]) / w, w = min(90, len // 2).
C19_BasePlusTrend ==
    HasForecast =>
        LET ps == last.result.points
            d == last.df
            rows == FeatureTable[d, last.tf].rows
            base == ModelPredict(models[KeyOf(last)], rows[Len(rows)])
            w == DocumentedW(d.n)
            diff == Close(d, d.n) - Close(d, d.n - w + 1)
        IN \A i \in 1..Len(ps) :
              /\ ps[i].predicted[2] > 0
              /\ IF last.tf \in {"1M", "6M"}
                 THEN /\ ps[i].predicted[1] = base * ps[i].predicted[2]
                      /\ ps[i].predicted = ps[1].predicted
                 ELSE ps[i].predicted[1] * w
                         = (base * w + diff * ps[i].daysAhead) * ps[i].predicted[2]

\* A one-year forecast on a moving series: the last point differs from the
\* first by the trend.
C19_Witness ==
    /\ HasForecast
    /\ last.tf = "1Y"
    /\ last.result.points[52].predicted # last.result.points[1].predicted

\* C20: in every point the bounds lie 2 * std_dev below and above the
\* prediction, std_dev >= 0; the half-width never shrinks along the
\* forecast, its square is proportional to daysAhead, and at 30 days ahead
\* it is 2 * daily_vol * current_price.
C20_BandWidens ==
    HasForecast =>
        LET ps == last.result.points
            sd(i) == ps[i].upperBound.std_dev
        IN /\ \A i \in 1..Len(ps) :
                 /\ ps[i].upperBound.centre = ps[i].predicted
                 /\ ps[i].lowerBound.centre = ps[i].predicted
                 /\ ps[i].upperBound.k = 2
                 /\ ps[i].lowerBound.k = -2
                 /\ ps[i].lowerBound.std_dev = sd(i)
                 /\ sd(i).coef = DailyVol(last.df) * Close(last.df, last.df.n)
                 /\ sd(i).coef >= 0
                 /\ sd(i).radicand[1] >= 0
                 /\ sd(i).radicand[2] = sd(1).radicand[2]
                 /\ sd(i).radicand[2] > 0
                 /\ sd(i).radicand[1] * ps[1].daysAhead
                       = sd(1).radicand[1] * ps[i].daysAhead
                 /\ ps[i].daysAhead = 30 => sd(i).radicand[1] = sd(i).radicand[2]
           /\ \A i \in 1..(Len(ps) - 1) : sd(i).radicand[1] <= sd(i + 1).radicand[1]

\* A five-year forecast, whose first point lies 30 days ahead, on a series
\* that moves.
C20_Witness ==
    /\ HasForecast
    /\ last.tf = "5Y"
    /\ last.result.points[1].daysAhead = 30
    /\ last.result.points[1].upperBound.std_dev.coef > 0

\* analyze_trend has returned a trend.
HasTrend == last.op = "trend" /\ last.result.kind = "value"

\* The comparison period of the call recorded in `last`: the documented
\* period, capped at half the series length.
CappedPeriod ==
    Min2(IF last.tf \in ValidTimeframes THEN DocumentedPeriod[last.tf] ELSE 20,
         last.df.n \div 2)

\* The mean of Close over rows lo..hi exceeds the mean over rows lo2..hi2
\* (both ranges non-empty).
MeanExceeds(d, lo, hi, lo2, hi2) ==
    SumClose(d, lo, hi) * (hi2 - lo2 + 1) > SumClose(d, lo2, hi2) * (hi - lo + 1)

\* C21, corrected: with period p >= 2 the recent window is the last
\* ceil(p/2) rows and the older window the floor(p/2) rows before them
\* (equal halves only for even p); analyze_trend answers Bullish exactly
\* when the mean close of the recent window is strictly greater than that of
\* the older window, and Bearish otherwise. With p < 2 the older window is
\* empty and the answer is Bearish.
C21_TrendWindows ==
    HasTrend =>
        LET n == last.df.n
            p == CappedPeriod
            c == (p + 1) \div 2
        IN IF p >= 2
           THEN last.result.trend =
                   (IF MeanExceeds(last.df, n - c + 1, n, n - p + 1, n - c)
                    THEN "Bullish" ELSE "Bearish")
           ELSE last.result.trend = "Bearish"

\* A 10-row series: period 5, windows of 3 and 2 rows, Bullish.
C21_Witness ==
    /\ HasTrend
    /\ last.df.id = "rows10"
    /\ last.tf = "1Y"
    /\ last.result.trend = "Bullish"

\* C21 as documented: the last `period` rows are split into two adjacent
\* halves of equal length period / 2, and the answer is Bullish exactly when
\* the mean close of the recent half exceeds that of the preceding half.
C21_EqualHalves ==
    HasTrend =>
        LET w == TrendWindows(last.df.n, last.tf) IN
        /\ WindowLen(w.recent) = WindowLen(w.older)
        /\ 2 * WindowLen(w.recent) = CappedPeriod
        /\ w.older[2] + 1 = w.recent[1]
        /\ last.result.trend = "Bullish" <=>
              (WindowLen(w.older) > 0
                  /\ MeanExceeds(last.df, w.recent[1], w.recent[2],
                                 w.older[1], w.older[2]))

\* The requests whose handler has started and not yet returned.
InProgress == {id \in DOMAIN reqs : reqs[id].status \in {"line193", "trained"}}

\* C22: while the handler of a request for key A is inside or just after
\* train_model, the handler of a waiting request for a different key B can
\* start: it does not wait for A's handler to finish.
C22_KeysIndependent ==
    \A a \in InProgress, b \in DOMAIN reqs :
        (/\ reqs[b].status = "pending"
         /\ KeyOf(reqs[a]) # KeyOf(reqs[b]))
        => ENABLED (\E r2 \in R2Values :
                       \E answer \in ProviderAnswers(reqs[b].symbol) :
                           Handle(b, answer, r2))

\* train_model has returned a fit.
HasFit == last.op = "train" /\ last.result.kind = "ok"

\* Datasets d and e give, for tf, feature tables of the same columns and
\* the same length n whose first floor(0.8 n) rows agree: they stand at the
\* same positions and the two series are equal up to the last of them.
AgreeOnTrainingRows(d, e, tf) ==
    LET X == FeatureTable[d, tf]
        Y == FeatureTable[e, tf]
        k == (4 * Len(X.rows)) \div 5
    IN /\ X.columns = Y.columns
       /\ Len(X.rows) = Len(Y.rows)
       /\ k > 0
       /\ \A i \in 1..k : X.rows[i] = Y.rows[i]
       /\ \A j \in 1..X.rows[k] : Close(d, j) = Close(e, j)

\* The statistics of the first floor(0.8 n) feature rows of each dataset.
DocumentedFit ==
    [d \in {e \in DataSets : e.columns}, tf \in TimeframeArgs |->
        StandardFit(d, SubSeq(FeatureTable[d, tf].rows, 1,
                              (4 * Len(FeatureTable[d, tf].rows)) \div 5))]

\* C23: the scaler train_model stores is fitted on the first floor(0.8 n)
\* feature rows only: it has the statistics of those rows, and so the
\* statistics any dataset agreeing with the trained one on those rows gives,
\* whatever the later rows are.
C23_ScalerFromTrainingRows ==
    HasFit =>
        \A e \in {x \in DataSets : x.columns} :
            AgreeOnTrainingRows(last.df, e, last.tf)
                => scalers[KeyOf(last)].fit = DocumentedFit[e, last.tf]

\* A fit on the 60-row dataset, which another dataset equals on the training
\* rows and differs from on the test rows.
C23_Witness ==
    /\ HasFit
    /\ last.df.id = "rows60"
    /\ \E e \in DataSets :
          /\ e.id = "late60"
          /\ AgreeOnTrainingRows(last.df, e, last.tf)
          /\ Close(e, 60) # Close(last.df, 60)
          /\ scalers[KeyOf(last)].fit.n_samples_seen_ = 32

\* predict_future has reached scaler.transform (line 254): the key was
\* cached, or has just been trained, and the passed dataset gave at least
\* one feature row.
AppliedScaler ==
    /\ last.op = "forecast"
    /\ last.df.columns
    /\ last.training.kind # "raise"
    /\ KeyOf(last) \in DOMAIN models
    /\ Len(FeatureTable[last.df, last.tf].rows) > 0

\* C24: whenever predict_future applies the cached scaler and model, the
\* feature columns built from the passed dataset are, in number and order,
\* the columns the cached scaler was fitted on.
C24_SameColumns ==
    AppliedScaler =>
        FeatureTable[last.df, last.tf].columns
            = scalers[KeyOf(last)].feature_names_in_

\* train_model, called now with the dataset and key of the call recorded in
\* `last`, returns the insufficient-data result.
TrainingWouldFail ==
    TrainModel(Cache, nextRun, last.df, last.symbol, last.tf, 50).result.kind
        = "error"

\* C25: if train_model returns the insufficient-data result for a dataset
\* and key, predict_future with the same dataset and key returns the empty
\* list, whatever was called before.
C25_EmptyWhenInsufficient ==
    (last.op = "forecast" /\ TrainingWouldFail)
        => (last.result.kind = "list" /\ last.result.points = <<>>)

\* C26: in every reachable state, the states between the steps of a
\* train_model call included, a key present in models is present in scalers
\* and both entries come from the same training run.
C26_ModelWithItsScaler ==
    \A k \in DOMAIN models :
        /\ k \in DOMAIN scalers
        /\ scalers[k].run = models[k].run

\* The requests answered with forecast points.
Forecasted == {id \in Answered : reqs[id].response.predictions # <<>>}

\* C27: the forecast points of a predict_live_stock response come from the
\* model the same request trained and whose metrics it reports; between the
\* request's train_model and its predict_future the cache entry of its key
\* is the one it stored, also when other requests for the key are waiting.
C27_OwnModel ==
    /\ \A id \in Answered :
          /\ reqs[id].response.metricsRun = reqs[id].trained
          /\ \A i \in 1..Len(reqs[id].response.predictions) :
                reqs[id].response.predictions[i].model_run = reqs[id].trained
    /\ \A id \in DOMAIN reqs :
          reqs[id].status = "trained"
              => models[KeyOf(reqs[id])].run = reqs[id].training.run

\* Two requests for one key, the second received while the first was
\* waiting, both answered with forecast points of their own, different runs.
C27_Witness ==
    \E r1 \in Forecasted, r2 \in Forecasted :
        /\ r1 \in reqs[r2].pendingAtArrival
        /\ KeyOf(reqs[r1]) = KeyOf(reqs[r2])
        /\ reqs[r1].trained # reqs[r2].trained
        /\ reqs[r1].response.predictions[1].model_run = reqs[r1].trained
        /\ reqs[r2].response.predictions[1].model_run = reqs[r2].trained

\* C28: in a successful training result the predictions and the prediction
\* dates are as many as the test-slice rows, and prediction_dates[i] is the
\* date of the i-th test-slice feature row, also when prepare_features dropped
\* leading rows of the dataset.
C28_DatesOfTestRows ==
    HasFit =>
        /\ last.result.n_predictions = Len(last.result.X_test)
        /\ Len(last.result.prediction_dates) = Len(last.result.X_test)
        /\ \A i \in 1..Len(last.result.X_test) :
              last.result.prediction_dates[i]
                  = Strftime(DateOf(last.df, last.result.X_test[i]))

\* C29: the Close used as the target of a training-slice row is dated
\* strictly before the earliest test-slice row.
C29_NoLabelLeak ==
    HasFit =>
        \A i \in 1..Len(last.result.X_train) :
            \A j \in 1..Len(last.result.X_test) :
                DateOf(last.df, TargetRow(last.result.X_train[i], last.tf))
                    < DateOf(last.df, last.result.X_test[j])

\* C30: analyze_trend never answers Neutral, whatever the timeframe and the
\* length of the series (0, 1, 2, 3 rows included): the answer is Bullish or
\* Bearish.
C30_NeverNeutral ==
    HasTrend => last.result.trend \in {"Bullish", "Bearish"}

\* A series of 3 rows, far below the period of any timeframe, is Bearish: the
\* period is 1 and the older window empty.
C30_Witness ==
    /\ HasTrend
    /\ last.df.id = "rows3"
    /\ last.tf = "5Y"
    /\ last.result.trend = "Bearish"
====
